---- MODULE Spec2Model ----
(***************************************************************************)
(* A model of the <infinite-scroller> element of src/src/infinite-scroller.ts *)
(* (the first class of that file, lines 95-486): the three index sets, the *)
(* cell containers of the shadow DOM with their content and inline height, *)
(* the intersection observer, and the operations that change them.         *)
(***************************************************************************)
EXTENDS Integers, Sequences, FiniteSets, TLC

\* ------------------------------------------------------------------ bounds
\* The largest itemCount the host sets.
MaxItemCount == 12
\* The number of operations (of the host, of Lit, of the observer) in one run.
MaxOps == 5

\* The numbers of entries the observer hands to one callback.
BatchLengths == {1, 2}
\* The data generations of the content supplier.
Versions == {1, 2}

\* The item counts the host sets: none, the three of the tests, and one that is
\* larger than the default window.
ItemCountChoices == {0, 3, MaxItemCount}
\* The cells the viewport moves over: the first and the last one.
ProbeIndices == {0, MaxItemCount - 1}
\* The indices the host passes to refreshCell: the probes and one index that
\* never has a container.
RefreshIndices == ProbeIndices \cup {MaxItemCount}
\* The supplier has content for the indices below its `loaded` mark.
LoadedChoices == {0, MaxItemCount}

\* ------------------------------------------------------------------ state
VARIABLES
    itemCount,                   \* @property itemCount
    scrollOptimizationsDisabled, \* @property scrollOptimizationsDisabled
    changed,                     \* a Lit update is pending whose PropertyValues
                                 \* hold itemCount or scrollOptimizationsDisabled
    hasRendered,                 \* the shadow DOM holds the template (sentinel)
    cellContent,                 \* container index -> what the container shows
    cellHeight,                  \* container index -> its style.height
    visibleCellIndices,
    renderedCellIndices,
    placeholderCellIndices,
    observedSentinel,            \* the observer watches the sentinel
    observedCells,               \* the containers the observer watches
    cellProvider,                \* the supplier: [loaded, version, deferred, failing]
    lastOp,                      \* the operation that ran last, its argument
    passCompleted,               \* the last operation ended with processVisibleCells
    queried,                     \* the indices the last operation asked the supplier for
    opCount,                     \* the number of operations run so far
    returned,                    \* what the last call of a function returned
    dispatched,                  \* the events the last operation dispatched, in order
    sentinelIntersecting,        \* the sentinel's isIntersecting, as the observer
                                 \* computed it last
    sentinelReportDue,           \* the observer watches the sentinel anew and has
                                 \* not reported on it yet
    scrolledIntoView,            \* the scrollIntoView call of the last operation:
                                 \* << index, behavior >>, or none
    entries,                     \* the entries the observer handed to the callback,
                                 \* when the last operation is a callback that is
                                 \* recorded with them
    inFlight,                    \* the promises of a deferred supplier that have
                                 \* not settled yet
    thrown,                      \* the last operation ended with an exception of
                                 \* the supplier propagating out of it
    args,                        \* the arguments of the last call of generateRange
    held,                        \* the array the host keeps from its last call of
                                 \* getVisibleCellIndices, or none
    isConnected,                 \* the element is attached to a document
    reports                      \* the indices whose last entry from the observer
                                 \* since the last reload() was intersecting

vars ==
    << itemCount, scrollOptimizationsDisabled, changed, hasRendered, cellContent,
       cellHeight, visibleCellIndices, renderedCellIndices, placeholderCellIndices,
       observedSentinel, observedCells, cellProvider, lastOp, passCompleted, queried,
       opCount, returned, dispatched, sentinelIntersecting, sentinelReportDue,
       scrolledIntoView, entries, inFlight, thrown, args,
       held, isConnected, reports >>

\* ------------------------------------------------------------------ values
Max2(a, b) == IF a >= b THEN a ELSE b
Min2(a, b) == IF a <= b THEN a ELSE b
SetMin(S) == CHOOSE x \in S : \A y \in S : x <= y
SetMax(S) == CHOOSE x \in S : \A y \in S : x >= y
SeqToSet(s) == {s[i] : i \in DOMAIN s}

\* render(nothing, container)
Nothing == [kind |-> "nothing", idx |-> 0, ver |-> 0]
\* render(this.placeholderCellTemplate, container)
Placeholder == [kind |-> "placeholder", idx |-> 0, ver |-> 0]
\* cellForIndex returning undefined
Undefined == [kind |-> "undefined", idx |-> 0, ver |-> 0]

\* style.height: not set, 'auto', or `${height}px`
UnsetHeight == [kind |-> "unset", px |-> 0]
AutoHeight == [kind |-> "auto", px |-> 0]
FixedHeight(h) == [kind |-> "px", px |-> h]

\* The laid-out height of a container's content (the layout engine's answer).
NaturalHeight(content) ==
    CASE content.kind = "cell" -> 2
      [] content.kind = "placeholder" -> 1
      [] content.kind = "promise" -> 1
      [] OTHER -> 0

\* cellContainer.offsetHeight
offsetHeight(content, height) ==
    IF height.kind = "px" THEN height.px ELSE NaturalHeight(content)

\* Array.from({ length }): ToLength truncates the length, here the fraction
\* numerator / denominator with a positive denominator, towards zero and
\* clamps a negative one to 0.
ToLength(numerator, denominator) ==
    IF numerator < 0 THEN 0 ELSE numerator \div denominator

\* generateRange that leaves `stop` out.
generateRange_ExcludesStop(start, stop, step) ==
    LET length == ToLength(stop - start, step)
    IN  [i \in 1..length |-> start + (i - 1) * step]

\* generateRange, for a positive step: the length (stop - start) / step + 1
\* is the fraction (stop - start + step) / step.
generateRange(start, stop, step) ==
    LET length == ToLength(stop - start + step, step)
    IN  [i \in 1..length |-> start + (i - 1) * step]

\* What a synchronous supplier returns for the index, and what the promise of
\* a deferred one settles with.
cellContentsFor(provider, index) ==
    IF index < provider.loaded
    THEN [kind |-> "cell", idx |-> index, ver |-> provider.version]
    ELSE Undefined

\* The promise an `async cellForIndex` returns for the index.
Promise(provider, index) ==
    [kind |-> "promise", idx |-> index, ver |-> provider.version]

\* this.cellProvider?.cellForIndex(index): a deferred supplier returns the
\* promise, whatever it settles with.
cellForIndex(provider, index) ==
    IF provider.deferred
    THEN Promise(provider, index)
    ELSE cellContentsFor(provider, index)

\* The call of a synchronous supplier's cellForIndex for the index throws.
cellForIndexThrows(provider, index) ==
    ~provider.deferred /\ index \in provider.failing

\* The promises the calls of cellForIndex for `indices` leave pending.
requests(provider, indices) ==
    IF provider.deferred THEN {Promise(provider, i) : i \in indices} ELSE {}

\* ------------------------------------------------------------------ events
\* new Event('scrollThresholdReached')
ScrollThresholdReached ==
    [type |-> "scrollThresholdReached", index |-> 0, visibleCellIndices |-> {},
     rendered |-> {}]

\* new CustomEvent('visibleCellsChanged', { detail: { visibleCellIndices } });
\* `rendered` is renderedCellIndices as a listener finds it when the event is
\* dispatched.
VisibleCellsChanged(visibleCellArray, rendered) ==
    [type |-> "visibleCellsChanged", index |-> 0,
     visibleCellIndices |-> visibleCellArray, rendered |-> rendered]

\* The cellSelected event with the aria-posinset of the cell as its index.
cellSelected_PosInSet(index) ==
    [type |-> "cellSelected", index |-> index + 1, visibleCellIndices |-> {},
     rendered |-> {}]

\* new CustomEvent('cellSelected', { detail: { index, originalEvent } })
cellSelected(index) ==
    [type |-> "cellSelected", index |-> index, visibleCellIndices |-> {},
     rendered |-> {}]

\* ------------------------------------------------------------------ cells
\* The part of the state the cell procedures work on, and the events they
\* dispatch.
Cells ==
    [r |-> renderedCellIndices, p |-> placeholderCellIndices, c |-> cellContent,
     h |-> cellHeight, q |-> {}, e |-> << >>, x |-> FALSE]

\* cellContainerForIndex(index) finds a container
hasContainer(st, index) == index \in DOMAIN st.c

MinCellBufferSize == 10

\* bufferRange with a buffer of ten cells whatever the number of visible cells.
bufferRange_FixedSize(visible, count) ==
    LET noVisibleCells == Cardinality(visible) = 0
        minBufferIndex ==
            IF noVisibleCells THEN 0 ELSE Max2(SetMin(visible) - MinCellBufferSize, 0)
        maxBufferIndex ==
            IF noVisibleCells
            THEN MinCellBufferSize
            ELSE Min2(SetMax(visible) + MinCellBufferSize, count - 1)
    IN  generateRange(minBufferIndex, maxBufferIndex, 1)

bufferRange(visible, count) ==
    LET cellBufferSize == Max2(MinCellBufferSize, Cardinality(visible))
        noVisibleCells == Cardinality(visible) = 0
        minBufferIndex ==
            IF noVisibleCells THEN 0 ELSE Max2(SetMin(visible) - cellBufferSize, 0)
        maxBufferIndex ==
            IF noVisibleCells
            THEN cellBufferSize
            ELSE Min2(SetMax(visible) + cellBufferSize, count - 1)
    IN  generateRange(minBufferIndex, maxBufferIndex, 1)

removeCell(st, index) ==
    IF ~hasContainer(st, index)
    THEN st
    ELSE [st EXCEPT !.h[index] = FixedHeight(offsetHeight(st.c[index], st.h[index])),
                    !.c[index] = Nothing,
                    !.r = @ \ {index}]

\* The iteration without placeholderCellIndices.delete(index).
renderCell_KeepsPlaceholderIndex(st, index, provider) ==
    IF index \in st.r THEN st
    ELSE IF ~hasContainer(st, index) THEN st
    ELSE IF cellForIndexThrows(provider, index)
    THEN [st EXCEPT !.q = @ \cup {index}, !.x = TRUE]
    ELSE LET template == cellForIndex(provider, index)
             s1 == [st EXCEPT !.q = @ \cup {index}, !.h[index] = AutoHeight]
         IN  IF template.kind # "undefined"
             THEN [s1 EXCEPT !.c[index] = template,
                             !.r = @ \cup {index}]
             ELSE IF index \in s1.p
                  THEN s1
                  ELSE [s1 EXCEPT !.c[index] = Placeholder, !.p = @ \cup {index}]

\* The iteration that leaves the height of the container as it finds it.
renderCell_KeepsHeight(st, index, provider) ==
    IF index \in st.r THEN st
    ELSE IF ~hasContainer(st, index) THEN st
    ELSE IF cellForIndexThrows(provider, index)
    THEN [st EXCEPT !.q = @ \cup {index}, !.x = TRUE]
    ELSE LET template == cellForIndex(provider, index)
             s1 == [st EXCEPT !.q = @ \cup {index}]
         IN  IF template.kind # "undefined"
             THEN [s1 EXCEPT !.c[index] = template,
                             !.r = @ \cup {index},
                             !.p = @ \ {index}]
             ELSE IF index \in s1.p
                  THEN s1
                  ELSE [s1 EXCEPT !.c[index] = Placeholder, !.p = @ \cup {index}]

\* The iteration without the check that skips an index that is rendered.
renderCell_NoRenderedCheck(st, index, provider) ==
    IF ~hasContainer(st, index) THEN st
    ELSE IF cellForIndexThrows(provider, index)
    THEN [st EXCEPT !.q = @ \cup {index}, !.x = TRUE]
    ELSE LET template == cellForIndex(provider, index)
             s1 == [st EXCEPT !.q = @ \cup {index}, !.h[index] = AutoHeight]
         IN  IF template.kind # "undefined"
             THEN [s1 EXCEPT !.c[index] = template,
                             !.r = @ \cup {index},
                             !.p = @ \ {index}]
             ELSE IF index \in s1.p
                  THEN s1
                  ELSE [s1 EXCEPT !.c[index] = Placeholder, !.p = @ \cup {index}]

\* renderCell that asks the supplier for the position of the cell, counted
\* from one, and renders what it gets into the container of `index`.
renderCell_AsksForPosition(st, index, provider) ==
    IF index \in st.r THEN st
    ELSE IF ~hasContainer(st, index) THEN st
    ELSE IF cellForIndexThrows(provider, index + 1)
    THEN [st EXCEPT !.q = @ \cup {index}, !.x = TRUE]
    ELSE LET template == cellForIndex(provider, index + 1)
             s1 == [st EXCEPT !.q = @ \cup {index}, !.h[index] = AutoHeight]
         IN  IF template.kind # "undefined"
             THEN [s1 EXCEPT !.c[index] = template,
                             !.r = @ \cup {index},
                             !.p = @ \ {index}]
             ELSE IF index \in s1.p
                  THEN s1
                  ELSE [s1 EXCEPT !.c[index] = Placeholder, !.p = @ \cup {index}]

\* One iteration of the forEach of renderCellBuffer.
renderCell(st, index, provider) ==
    IF index \in st.r THEN st
    ELSE IF ~hasContainer(st, index) THEN st
    ELSE IF cellForIndexThrows(provider, index)
    THEN [st EXCEPT !.q = @ \cup {index}, !.x = TRUE]
    ELSE LET template == cellForIndex(provider, index)
             s1 == [st EXCEPT !.q = @ \cup {index}, !.h[index] = AutoHeight]
         IN  IF template.kind # "undefined"
             THEN [s1 EXCEPT !.c[index] = template,
                             !.r = @ \cup {index},
                             !.p = @ \ {index}]
             ELSE IF index \in s1.p
                  THEN s1
                  ELSE [s1 EXCEPT !.c[index] = Placeholder, !.p = @ \cup {index}]

\* range.forEach(index => ...): the cells after one iteration are `next`, the
\* indices still to come are `rest`. An exception of the supplier leaves the
\* forEach: no later index is looked at.
RECURSIVE renderCellBuffer(_, _, _)
renderCellBuffer(st, range, provider) ==
    IF range = << >> \/ st.x
    THEN st
    ELSE CHOOSE after \in
             {renderCellBuffer(next, rest, provider) :
                 next \in {renderCell(st, Head(range), provider)},
                 rest \in {Tail(range)}} : TRUE

RECURSIVE removeCells(_, _)
\* range.forEach(index => this.removeCell(index))
removeCells(st, range) ==
    IF range = << >>
    THEN st
    ELSE CHOOSE after \in
             {removeCells(next, rest) :
                 next \in {removeCell(st, Head(range))},
                 rest \in {Tail(range)}} : TRUE

\* Array.from(set).filter(...) as a sequence, in ascending order (the removals
\* do not depend on one another, so the order does not matter).
RECURSIVE SetToSeq(_)
SetToSeq(S) ==
    IF S = {}
    THEN << >>
    ELSE CHOOSE seq \in {<< x >> \o SetToSeq(S \ {x}) : x \in {SetMin(S)}} : TRUE

removeCellsOutsideBufferRange(st, range) ==
    LET renderedUnbufferedCells == {index \in st.r : index \notin SeqToSet(range)}
    IN  removeCells(st, SetToSeq(renderedUnbufferedCells))

\* The rest of processVisibleCells after renderCellBuffer: it does not run
\* when renderCellBuffer was left by an exception.
removeAndDispatch(st, range, visible) ==
    IF st.x
    THEN st
    ELSE CHOOSE after \in
             {[s EXCEPT !.e = Append(@, VisibleCellsChanged(visible, s.r))] :
                  s \in {removeCellsOutsideBufferRange(st, range)}} : TRUE

\* processVisibleCells that dispatches visibleCellsChanged before it removes
\* the cells outside the buffer range.
processVisibleCells_DispatchesBeforeRemoval(st, visible, count, provider) ==
    LET range == bufferRange(visible, count)
    IN  CHOOSE after \in
            {removeCellsOutsideBufferRange(
                 [s EXCEPT !.e = Append(@, VisibleCellsChanged(visible, s.r))], range) :
                 s \in {renderCellBuffer(st, range, provider)}} : TRUE

\* processVisibleCells that removes against a range computed anew, one index
\* narrower at its start than the range it rendered.
processVisibleCells_RemovesAgainstNarrowerRange(st, visible, count, provider) ==
    LET range == bufferRange(visible, count)
        narrower == IF range = << >> THEN range ELSE Tail(range)
    IN  CHOOSE after \in
            {removeAndDispatch(s, narrower, visible) :
                 s \in {renderCellBuffer(st, range, provider)}} : TRUE

\* processVisibleCells, on the cells: the visible set is copied and the buffer
\* range computed once, before the cells are rendered and removed.
processVisibleCells(st, visible, count, provider) ==
    LET range == bufferRange(visible, count)
    IN  CHOOSE after \in
            {removeAndDispatch(s, range, visible) :
                 s \in {renderCellBuffer(st, range, provider)}} : TRUE

\* ------------------------------------------------------------------ observer
\* The observation setup without the `if (this.sentinel)` guard.
setupIntersectionObserver_UnguardedSentinel(st, visible, sentinel) ==
    IF scrollOptimizationsDisabled
    THEN LET indexArray == generateRange(0, Max2(0, itemCount - 1), 1)
             all == visible \cup SeqToSet(indexArray)
         IN  [cells |-> processVisibleCells(st, all, itemCount, cellProvider),
              visible |-> all,
              sentinel |-> TRUE,
              observed |-> {},
              pass |-> TRUE]
    ELSE [cells |-> st,
          visible |-> visible,
          sentinel |-> TRUE,
          observed |-> DOMAIN st.c,
          pass |-> FALSE]

\* The observation setup without the disconnect() that begins it: what the
\* observer watched before stays watched.
setupIntersectionObserver_NoDisconnect(st, visible, sentinel) ==
    IF scrollOptimizationsDisabled
    THEN LET indexArray == generateRange(0, Max2(0, itemCount - 1), 1)
             all == visible \cup SeqToSet(indexArray)
         IN  [cells |-> processVisibleCells(st, all, itemCount, cellProvider),
              visible |-> all,
              sentinel |-> observedSentinel \/ sentinel,
              observed |-> observedCells,
              pass |-> TRUE]
    ELSE [cells |-> st,
          visible |-> visible,
          sentinel |-> observedSentinel \/ sentinel,
          observed |-> observedCells \cup DOMAIN st.c,
          pass |-> FALSE]

\* setupIntersectionObserver: what it leaves of the cells, the visible set and
\* the observed elements. `sentinel` tells whether this.sentinel exists. The
\* disconnect() that begins it empties the observer's targets, so the observed
\* elements are the ones observed here.
setupIntersectionObserver(st, visible, sentinel) ==
    IF scrollOptimizationsDisabled
    THEN LET indexArray == generateRange(0, Max2(0, itemCount - 1), 1)
             all == visible \cup SeqToSet(indexArray)
         IN  [cells |-> processVisibleCells(st, all, itemCount, cellProvider),
              visible |-> all,
              sentinel |-> sentinel,
              observed |-> {},
              pass |-> TRUE]
    ELSE [cells |-> st,
          visible |-> visible,
          sentinel |-> sentinel,
          observed |-> DOMAIN st.c,
          pass |-> FALSE]

\* An observer entry: the target (the sentinel, or the container of `index`)
\* and isIntersecting.
CellEntries == [sentinel : {FALSE}, index : ProbeIndices, isIntersecting : BOOLEAN]

Entries == [sentinel : {TRUE}, index : {0}, isIntersecting : BOOLEAN] \cup CellEntries

\* The batches of entries about cells and the sentinel, and those about cells.
Batches == UNION {[1..n -> Entries] : n \in BatchLengths}

CellBatches == UNION {[1..n -> CellEntries] : n \in BatchLengths}

\* The entries of a batch that are about the sentinel.
sentinelEntries(batch) == SelectSeq(batch, LAMBDA entry : entry.sentinel)

\* The observer reports on the elements it watches only; on the sentinel it
\* reports once in a batch, when it has begun to watch it or when its
\* isIntersecting has changed.
Deliverable(entry) ==
    IF entry.sentinel
    THEN /\ observedSentinel
         /\ sentinelReportDue \/ entry.isIntersecting # sentinelIntersecting
    ELSE entry.index \in observedCells

\* The iteration without the branch that deletes the index.
applyEntry_NeverDeletes(visible, entry) ==
    IF entry.sentinel
    THEN visible
    ELSE visible \cup {entry.index}

\* One iteration of entries.forEach in the observer's callback.
applyEntry(visible, entry) ==
    IF entry.sentinel
    THEN visible
    ELSE IF entry.isIntersecting
         THEN visible \cup {entry.index}
         ELSE visible \ {entry.index}

RECURSIVE applyEntries(_, _)
applyEntries(visible, batch) ==
    IF batch = << >>
    THEN visible
    ELSE applyEntries(applyEntry(visible, Head(batch)), Tail(batch))

\* The events entries.forEach dispatches: one for every entry that says that
\* the sentinel is intersecting.
thresholdEvents(batch) ==
    [i \in 1..Len(SelectSeq(sentinelEntries(batch), LAMBDA entry : entry.isIntersecting))
        |-> ScrollThresholdReached]

\* ------------------------------------------------------------------ actions
Op(name, index) ==
    [name |-> name, index |-> index,
     repeated |-> lastOp.name = name /\ lastOp.index = index]

\* One more operation runs, and is recorded as the last one.
Ran(name, index) ==
    /\ UNCHANGED held
    /\ opCount < MaxOps
    /\ opCount' = opCount + 1
    /\ lastOp' = Op(name, index)
    /\ returned' = << >>
    /\ entries' = << >>
    /\ args' = << >>
    /\ scrolledIntoView' = << >>

SetCells(st) ==
    /\ renderedCellIndices' = st.r
    /\ placeholderCellIndices' = st.p
    /\ cellContent' = st.c
    /\ cellHeight' = st.h
    /\ queried' = st.q
    /\ dispatched' = st.e
    /\ inFlight' = inFlight \cup requests(cellProvider, st.q)
    /\ thrown' = st.x

Init ==
    /\ itemCount \in ItemCountChoices
    /\ scrollOptimizationsDisabled \in BOOLEAN
    /\ changed = TRUE
    /\ hasRendered = FALSE
    /\ cellContent = << >>
    /\ cellHeight = << >>
    /\ visibleCellIndices = {}
    /\ renderedCellIndices = {}
    /\ placeholderCellIndices = {}
    /\ observedSentinel = FALSE
    /\ observedCells = {}
    /\ cellProvider \in [loaded : LoadedChoices, version : {1}, deferred : {FALSE}, failing : {{}}]
    /\ lastOp = [name |-> "constructor", index |-> 0, repeated |-> FALSE]
    /\ passCompleted = FALSE
    /\ queried = {}
    /\ opCount = 0
    /\ returned = << >>
    /\ dispatched = << >>
    /\ sentinelIntersecting = FALSE
    /\ sentinelReportDue = FALSE
    /\ scrolledIntoView = << >>
    /\ entries = << >>
    /\ inFlight = {}
    /\ thrown = FALSE
    /\ args = << >>
    /\ held = << >>
    /\ isConnected = TRUE
    /\ reports = {}

\* The host assigns itemCount: Lit records the change and schedules an update.
itemCountAssigned(n) ==
    /\ UNCHANGED << isConnected, reports >>
    /\ n # itemCount
    /\ itemCount' = n
    /\ changed' = TRUE
    /\ passCompleted' = FALSE
    /\ queried' = {}
    /\ dispatched' = << >>
    /\ thrown' = FALSE
    /\ UNCHANGED << sentinelIntersecting, sentinelReportDue, inFlight >>
    /\ UNCHANGED << scrollOptimizationsDisabled, hasRendered, cellContent, cellHeight,
                    visibleCellIndices, renderedCellIndices, placeholderCellIndices,
                    observedSentinel, observedCells, cellProvider >>

SetItemCount(n) == itemCountAssigned(n) /\ Ran("setItemCount", 0)

SetScrollOptimizationsDisabled(b) ==
    /\ UNCHANGED << isConnected, reports >>
    /\ b # scrollOptimizationsDisabled
    /\ scrollOptimizationsDisabled' = b
    /\ changed' = TRUE
    /\ Ran("setScrollOptimizationsDisabled", 0)
    /\ passCompleted' = FALSE
    /\ queried' = {}
    /\ dispatched' = << >>
    /\ thrown' = FALSE
    /\ UNCHANGED << sentinelIntersecting, sentinelReportDue, inFlight >>
    /\ UNCHANGED << itemCount, hasRendered, cellContent, cellHeight,
                    visibleCellIndices, renderedCellIndices, placeholderCellIndices,
                    observedSentinel, observedCells, cellProvider >>

\* The supplier's data changes (more of it loads, or it is replaced).
ProviderChange(provider) ==
    /\ UNCHANGED << isConnected, reports >>
    /\ provider # cellProvider
    /\ provider.version >= cellProvider.version
    /\ cellProvider' = provider
    /\ Ran("providerChange", 0)
    /\ passCompleted' = FALSE
    /\ queried' = {}
    /\ dispatched' = << >>
    /\ thrown' = FALSE
    /\ UNCHANGED << sentinelIntersecting, sentinelReportDue, inFlight >>
    /\ UNCHANGED << itemCount, scrollOptimizationsDisabled, changed, hasRendered,
                    cellContent, cellHeight, visibleCellIndices, renderedCellIndices,
                    placeholderCellIndices, observedSentinel, observedCells >>

\* render(): one container per index of generateRange(0, itemCount - 1, 1);
\* repeat() keeps the container of a key that stays and creates empty ones.
\* render() with the range of reload(), which is never empty.
render_ClampedRange(st) ==
    LET indexArray == generateRange(0, Max2(0, itemCount - 1), 1)
        containers == SeqToSet(indexArray)
    IN  [st EXCEPT
            !.c = [i \in containers |-> IF i \in DOMAIN st.c THEN st.c[i] ELSE Nothing],
            !.h = [i \in containers |-> IF i \in DOMAIN st.h THEN st.h[i] ELSE UnsetHeight]]

render(st) ==
    LET indexArray == generateRange(0, itemCount - 1, 1)
        containers == SeqToSet(indexArray)
    IN  [st EXCEPT
            !.c = [i \in containers |-> IF i \in DOMAIN st.c THEN st.c[i] ELSE Nothing],
            !.h = [i \in containers |-> IF i \in DOMAIN st.h THEN st.h[i] ELSE UnsetHeight]]

\* Lit's update: render(), then updated(changed).
updated ==
    /\ UNCHANGED << isConnected, reports >>
    /\ changed
    /\ \E s \in {setupIntersectionObserver(render(Cells), visibleCellIndices, TRUE)} :
           /\ SetCells(s.cells)
           /\ visibleCellIndices' = s.visible
           /\ observedSentinel' = s.sentinel
           /\ sentinelReportDue' = s.sentinel
           /\ observedCells' = s.observed
           /\ passCompleted' = (s.pass /\ ~s.cells.x)
    /\ changed' = FALSE
    /\ hasRendered' = TRUE
    /\ UNCHANGED << itemCount, scrollOptimizationsDisabled, cellProvider,
                    sentinelIntersecting >>

Update == updated /\ Ran("update", 0)

\* reload() that empties the containers itself and leaves the index sets alone.
reload_KeepsIndexSets(st) ==
    LET cleared == [st EXCEPT !.c = [i \in DOMAIN st.c |-> Nothing]]
    IN  setupIntersectionObserver(cleared, {}, hasRendered)

\* reload() that does not empty the visible set before the observation setup.
reload_KeepsVisible(st) ==
    LET range == generateRange(0, Max2(0, itemCount - 1), 1)
        cleared == [removeCells(st, range) EXCEPT !.r = {}, !.p = {}]
    IN  setupIntersectionObserver(cleared, visibleCellIndices, hasRendered)

reload(st) ==
    LET range == generateRange(0, Max2(0, itemCount - 1), 1)
        cleared == [removeCells(st, range) EXCEPT !.r = {}, !.p = {}]
    IN  setupIntersectionObserver(cleared, {}, hasRendered)

reloaded ==
    /\ reports' = {}
    /\ UNCHANGED isConnected
    /\ \E s \in {reload(Cells)} :
           /\ SetCells(s.cells)
           /\ visibleCellIndices' = s.visible
           /\ observedSentinel' = s.sentinel
           /\ sentinelReportDue' = s.sentinel
           /\ observedCells' = s.observed
           /\ passCompleted' = (s.pass /\ ~s.cells.x)
    /\ UNCHANGED << itemCount, scrollOptimizationsDisabled, changed, hasRendered,
                    cellProvider, sentinelIntersecting >>

Reload == reloaded /\ Ran("reload", 0)

\* refreshCell that refreshes the whole buffer range.
refreshCell_WholeRange(st, index) ==
    LET range == bufferRange(visibleCellIndices, itemCount)
    IN  renderCellBuffer(removeCells(st, range), range, cellProvider)

refreshCell(st, index) ==
    LET removed == removeCell(st, index)
    IN  IF index \in SeqToSet(bufferRange(visibleCellIndices, itemCount))
        THEN renderCellBuffer(removed, << index >>, cellProvider)
        ELSE removed

RefreshCell(index) ==
    /\ UNCHANGED << isConnected, reports >>
    /\ SetCells(refreshCell(Cells, index))
    /\ Ran("refreshCell", index)
    /\ passCompleted' = FALSE
    /\ UNCHANGED << itemCount, scrollOptimizationsDisabled, changed, hasRendered,
                    visibleCellIndices, observedSentinel, observedCells, cellProvider,
                    sentinelIntersecting, sentinelReportDue >>

\* refreshAllVisibleCells that does not remove the cells first.
refreshAllVisibleCells_NoRemove(st) ==
    renderCellBuffer(st, bufferRange(visibleCellIndices, itemCount), cellProvider)

refreshAllVisibleCells(st) ==
    LET range == bufferRange(visibleCellIndices, itemCount)
    IN  renderCellBuffer(removeCells(st, range), range, cellProvider)

RefreshAllVisibleCells ==
    /\ UNCHANGED << isConnected, reports >>
    /\ SetCells(refreshAllVisibleCells(Cells))
    /\ Ran("refreshAllVisibleCells", 0)
    /\ passCompleted' = FALSE
    /\ UNCHANGED << itemCount, scrollOptimizationsDisabled, changed, hasRendered,
                    visibleCellIndices, observedSentinel, observedCells, cellProvider,
                    sentinelIntersecting, sentinelReportDue >>

\* The observer's callback running its pass on the visible set as it was
\* before the entries of the batch are applied.
intersectionObserver_PassBeforeEntries(batch) ==
    /\ reports' = applyEntries(reports, batch)
    /\ UNCHANGED isConnected
    /\ \A i \in DOMAIN batch : Deliverable(batch[i])
    /\ Len(sentinelEntries(batch)) <= 1
    /\ IF sentinelEntries(batch) = << >>
       THEN UNCHANGED << sentinelIntersecting, sentinelReportDue >>
       ELSE /\ sentinelIntersecting' = sentinelEntries(batch)[1].isIntersecting
            /\ sentinelReportDue' = FALSE
    /\ \E visible \in {applyEntries(visibleCellIndices, batch)},
          cells \in {[Cells EXCEPT !.e = thresholdEvents(batch)]} :
           /\ visibleCellIndices' = visible
           /\ IF ~scrollOptimizationsDisabled
              THEN \E s \in {processVisibleCells(cells, visibleCellIndices, itemCount,
                                                 cellProvider)} :
                       /\ SetCells(s)
                       /\ passCompleted' = ~s.x
              ELSE /\ SetCells(cells)
                   /\ passCompleted' = FALSE
    /\ UNCHANGED << itemCount, scrollOptimizationsDisabled, changed, hasRendered,
                    observedSentinel, observedCells, cellProvider >>

\* The observer's callback, with one batch of entries.
intersectionObserver(batch) ==
    /\ reports' = applyEntries(reports, batch)
    /\ UNCHANGED isConnected
    /\ \A i \in DOMAIN batch : Deliverable(batch[i])
    /\ Len(sentinelEntries(batch)) <= 1
    /\ IF sentinelEntries(batch) = << >>
       THEN UNCHANGED << sentinelIntersecting, sentinelReportDue >>
       ELSE /\ sentinelIntersecting' = sentinelEntries(batch)[1].isIntersecting
            /\ sentinelReportDue' = FALSE
    /\ \E visible \in {applyEntries(visibleCellIndices, batch)},
          cells \in {[Cells EXCEPT !.e = thresholdEvents(batch)]} :
           /\ visibleCellIndices' = visible
           /\ IF ~scrollOptimizationsDisabled
              THEN \E s \in {processVisibleCells(cells, visible, itemCount, cellProvider)} :
                       /\ SetCells(s)
                       /\ passCompleted' = ~s.x
              ELSE /\ SetCells(cells)
                   /\ passCompleted' = FALSE
    /\ UNCHANGED << itemCount, scrollOptimizationsDisabled, changed, hasRendered,
                    observedSentinel, observedCells, cellProvider >>

IntersectionCallback(batch) ==
    intersectionObserver(batch) /\ Ran("intersectionCallback", 0)

\* disconnectedCallback(): this.intersectionObserver.disconnect()
disconnectedCallback ==
    /\ isConnected
    /\ isConnected' = FALSE
    /\ UNCHANGED reports
    /\ observedSentinel' = FALSE
    /\ observedCells' = {}
    /\ sentinelReportDue' = FALSE
    /\ passCompleted' = FALSE
    /\ queried' = {}
    /\ dispatched' = << >>
    /\ thrown' = FALSE
    /\ UNCHANGED << itemCount, scrollOptimizationsDisabled, changed, hasRendered,
                    cellContent, cellHeight, visibleCellIndices, renderedCellIndices,
                    placeholderCellIndices, cellProvider, sentinelIntersecting,
                    inFlight >>

DisconnectedCallback == disconnectedCallback /\ Ran("disconnectedCallback", 0)

\* The element is attached again. The class has no connectedCallback of its
\* own: the inherited one asks for no update, so that neither updated() nor
\* setupObservations() runs for it.
connectedCallback ==
    /\ ~isConnected
    /\ isConnected' = TRUE
    /\ passCompleted' = FALSE
    /\ queried' = {}
    /\ dispatched' = << >>
    /\ thrown' = FALSE
    /\ UNCHANGED << itemCount, scrollOptimizationsDisabled, changed, hasRendered,
                    cellContent, cellHeight, visibleCellIndices, renderedCellIndices,
                    placeholderCellIndices, observedSentinel, observedCells,
                    cellProvider, sentinelIntersecting, sentinelReportDue,
                    inFlight, reports >>

ConnectedCallback == connectedCallback /\ Ran("connectedCallback", 0)

\* The observer's callback, recorded with the entries it was handed.
EntriesCallback(batch) ==
    /\ UNCHANGED held
    /\ intersectionObserver(batch)
    /\ opCount < MaxOps
    /\ opCount' = opCount + 1
    /\ lastOp' = Op("intersectionCallback", 0)
    /\ returned' = << >>
    /\ entries' = batch
    /\ args' = << >>
    /\ scrolledIntoView' = << >>

\* @queryAll('.cell-container'): the containers in document order, which is
\* the order of their indices.
cellContainers == SetToSeq(DOMAIN cellContent)

\* scrollToCell that takes `index` for a position counted from one.
scrollToCell_CountsFromOne(index, animated) ==
    IF index \notin DOMAIN cellContainers
    THEN [returned |-> FALSE, scrolled |-> << >>,
          visible |-> visibleCellIndices]
    ELSE [returned |-> TRUE,
          scrolled |-> << cellContainers[index], IF animated THEN "smooth" ELSE "auto" >>,
          visible |-> visibleCellIndices]

\* scrollToCell that records the cell it scrolls to as visible.
scrollToCell_MarksVisible(index, animated) ==
    IF index + 1 \notin DOMAIN cellContainers
    THEN [returned |-> FALSE, scrolled |-> << >>,
          visible |-> visibleCellIndices]
    ELSE [returned |-> TRUE,
          scrolled |-> << cellContainers[index + 1],
                          IF animated THEN "smooth" ELSE "auto" >>,
          visible |-> visibleCellIndices \cup {index}]

\* scrollToCell(index, animated): this.cellContainers[index], an array that
\* counts from zero; what it returns, the scrollIntoView call it makes, and
\* the visible set it leaves.
scrollToCell(index, animated) ==
    IF index + 1 \notin DOMAIN cellContainers
    THEN [returned |-> FALSE, scrolled |-> << >>,
          visible |-> visibleCellIndices]
    ELSE [returned |-> TRUE,
          scrolled |-> << cellContainers[index + 1],
                          IF animated THEN "smooth" ELSE "auto" >>,
          visible |-> visibleCellIndices]

ScrollToCell(index, animated) ==
    /\ UNCHANGED << isConnected, reports >>
    /\ UNCHANGED held
    /\ opCount < MaxOps
    /\ opCount' = opCount + 1
    /\ lastOp' = Op("scrollToCell", index)
    /\ entries' = << >>
    /\ args' = << >>
    /\ \E call \in {scrollToCell(index, animated)} :
           /\ returned' = << call.returned >>
           /\ scrolledIntoView' = call.scrolled
           /\ visibleCellIndices' = call.visible
    /\ dispatched' = << >>
    /\ passCompleted' = FALSE
    /\ queried' = {}
    /\ UNCHANGED << itemCount, scrollOptimizationsDisabled, changed, hasRendered,
                    cellContent, cellHeight, renderedCellIndices,
                    placeholderCellIndices, observedSentinel, observedCells,
                    cellProvider, sentinelIntersecting, sentinelReportDue,
                    inFlight >>
    /\ thrown' = FALSE

\* The user clicks the container of `index`: its @click listener runs.
CellSelected(index) ==
    /\ UNCHANGED << isConnected, reports >>
    /\ index \in DOMAIN cellContent
    /\ Ran("cellSelected", index)
    /\ dispatched' = << cellSelected(index) >>
    /\ passCompleted' = FALSE
    /\ queried' = {}
    /\ UNCHANGED << itemCount, scrollOptimizationsDisabled, changed, hasRendered,
                    cellContent, cellHeight, visibleCellIndices, renderedCellIndices,
                    placeholderCellIndices, observedSentinel, observedCells,
                    cellProvider, sentinelIntersecting, sentinelReportDue,
                    inFlight >>
    /\ thrown' = FALSE

\* ------------------------------------------------------------------ getVisibleCellIndices
\* An array in the hands of the host is [live, elements]: `elements` are the
\* elements of an array of its own, `live` says that the value is the visible
\* set itself, whose members are then the members of that set at any time.
\* The order of the elements of Array.from(set), the order of insertion, is
\* not modelled: the elements are in ascending order.
elementsOf(array, visible) ==
    IF array.live THEN visible ELSE SeqToSet(array.elements)

\* getVisibleCellIndices() that hands out the set itself.
getVisibleCellIndices_ReturnsSet ==
    [live |-> TRUE, elements |-> << >>]

\* getVisibleCellIndices(): Array.from(this.visibleCellIndices)
getVisibleCellIndices ==
    [live |-> FALSE, elements |-> SetToSeq(visibleCellIndices)]

\* The host calls getVisibleCellIndices() and keeps what it returns.
GetVisibleCellIndices ==
    /\ opCount < MaxOps
    /\ opCount' = opCount + 1
    /\ lastOp' = Op("getVisibleCellIndices", 0)
    /\ held' = << getVisibleCellIndices >>
    /\ returned' = << >>
    /\ entries' = << >>
    /\ args' = << >>
    /\ scrolledIntoView' = << >>
    /\ dispatched' = << >>
    /\ passCompleted' = FALSE
    /\ queried' = {}
    /\ thrown' = FALSE
    /\ UNCHANGED << itemCount, scrollOptimizationsDisabled, changed, hasRendered,
                    cellContent, cellHeight, visibleCellIndices, renderedCellIndices,
                    placeholderCellIndices, observedSentinel, observedCells,
                    cellProvider, sentinelIntersecting, sentinelReportDue,
                    inFlight, isConnected, reports >>

\* The host pushes `index` onto the array it keeps.
HeldArrayPush(index) ==
    /\ held # << >>
    /\ opCount < MaxOps
    /\ opCount' = opCount + 1
    /\ lastOp' = Op("push", index)
    /\ IF held[1].live
       THEN /\ visibleCellIndices' = visibleCellIndices \cup {index}
            /\ UNCHANGED held
       ELSE /\ held' = << [held[1] EXCEPT !.elements = Append(@, index)] >>
            /\ UNCHANGED visibleCellIndices
    /\ returned' = << >>
    /\ entries' = << >>
    /\ args' = << >>
    /\ scrolledIntoView' = << >>
    /\ dispatched' = << >>
    /\ passCompleted' = FALSE
    /\ queried' = {}
    /\ thrown' = FALSE
    /\ UNCHANGED << itemCount, scrollOptimizationsDisabled, changed, hasRendered,
                    cellContent, cellHeight, renderedCellIndices,
                    placeholderCellIndices, observedSentinel, observedCells,
                    cellProvider, sentinelIntersecting, sentinelReportDue,
                    inFlight, isConnected, reports >>

\* The operations that change the visible set, with a host that keeps and
\* changes the arrays getVisibleCellIndices() returns.
NextSnapshot ==
    \/ \E n \in ItemCountChoices : SetItemCount(n)
    \/ Update
    \/ Reload
    \/ \E batch \in CellBatches : IntersectionCallback(batch)
    \/ GetVisibleCellIndices
    \/ \E index \in ProbeIndices : HeldArrayPush(index)

SpecSnapshot == Init /\ [][NextSnapshot]_vars

\* ------------------------------------------------------------------ all operations
Next ==
    \/ \E n \in ItemCountChoices : SetItemCount(n)
    \/ \E b \in BOOLEAN : SetScrollOptimizationsDisabled(b)
    \/ \E provider \in [loaded : LoadedChoices, version : Versions, deferred : {FALSE}, failing : {{}}] :
          ProviderChange(provider)
    \/ Update
    \/ Reload
    \/ \E index \in RefreshIndices : RefreshCell(index)
    \/ RefreshAllVisibleCells
    \/ \E batch \in CellBatches : IntersectionCallback(batch)

Spec == Init /\ [][Next]_vars

\* ------------------------------------------------------------------ reload under a fair scheduler
\* The host calls that one behaviour makes; the updates Lit schedules and the
\* observer's callbacks are not counted.
MaxHostOps == 2

\* A call the host makes.
HostCall(name) ==
    /\ UNCHANGED held
    /\ opCount < MaxHostOps
    /\ opCount' = opCount + 1
    /\ lastOp' = Op(name, 0)
    /\ returned' = << >>
    /\ entries' = << >>
    /\ args' = << >>
    /\ scrolledIntoView' = << >>

\* A task the browser runs: Lit's update microtask, an observer callback.
BrowserTask(name) ==
    /\ UNCHANGED held
    /\ opCount' = opCount
    /\ lastOp' = Op(name, 0)
    /\ returned' = << >>
    /\ entries' = << >>
    /\ args' = << >>
    /\ scrolledIntoView' = << >>

\* Optimizations enabled, a positive itemCount, and a supplier with content
\* for every index.
InitFair ==
    /\ itemCount \in ItemCountChoices \ {0}
    /\ scrollOptimizationsDisabled = FALSE
    /\ changed = TRUE
    /\ hasRendered = FALSE
    /\ cellContent = << >>
    /\ cellHeight = << >>
    /\ visibleCellIndices = {}
    /\ renderedCellIndices = {}
    /\ placeholderCellIndices = {}
    /\ observedSentinel = FALSE
    /\ observedCells = {}
    /\ cellProvider = [loaded |-> MaxItemCount, version |-> 1, deferred |-> FALSE, failing |-> {}]
    /\ lastOp = [name |-> "constructor", index |-> 0, repeated |-> FALSE]
    /\ passCompleted = FALSE
    /\ queried = {}
    /\ opCount = 0
    /\ returned = << >>
    /\ dispatched = << >>
    /\ sentinelIntersecting = FALSE
    /\ sentinelReportDue = FALSE
    /\ scrolledIntoView = << >>
    /\ entries = << >>
    /\ inFlight = {}
    /\ thrown = FALSE
    /\ args = << >>
    /\ held = << >>
    /\ isConnected = TRUE
    /\ reports = {}

HostSetItemCount(n) == itemCountAssigned(n) /\ HostCall("setItemCount")

HostReload == reloaded /\ HostCall("reload")

ScheduledUpdate == updated /\ BrowserTask("update")

ObserverCallback(batch) == intersectionObserver(batch) /\ BrowserTask("intersectionCallback")

NextFair ==
    \/ \E n \in ItemCountChoices \ {0} : HostSetItemCount(n)
    \/ HostReload
    \/ ScheduledUpdate
    \/ \E batch \in CellBatches : ObserverCallback(batch)

\* Lit runs the update it has scheduled, and the observer reports on the
\* elements it watches.
SpecFair ==
    /\ InitFair
    /\ [][NextFair]_vars
    /\ WF_vars(ScheduledUpdate)
    /\ WF_vars(\E batch \in CellBatches : ObserverCallback(batch))

\* ------------------------------------------------------------------ the sentinel and the host's calls
\* The element in a page that scrolls: the observer reports on the sentinel as
\* well as on the cells. The supplier has content for every index.
InitEvents ==
    /\ itemCount \in ItemCountChoices
    /\ scrollOptimizationsDisabled \in BOOLEAN
    /\ changed = TRUE
    /\ hasRendered = FALSE
    /\ cellContent = << >>
    /\ cellHeight = << >>
    /\ visibleCellIndices = {}
    /\ renderedCellIndices = {}
    /\ placeholderCellIndices = {}
    /\ observedSentinel = FALSE
    /\ observedCells = {}
    /\ cellProvider = [loaded |-> MaxItemCount, version |-> 1, deferred |-> FALSE, failing |-> {}]
    /\ lastOp = [name |-> "constructor", index |-> 0, repeated |-> FALSE]
    /\ passCompleted = FALSE
    /\ queried = {}
    /\ opCount = 0
    /\ returned = << >>
    /\ dispatched = << >>
    /\ sentinelIntersecting = FALSE
    /\ sentinelReportDue = FALSE
    /\ scrolledIntoView = << >>
    /\ entries = << >>
    /\ inFlight = {}
    /\ thrown = FALSE
    /\ args = << >>
    /\ held = << >>
    /\ isConnected = TRUE
    /\ reports = {}

\* The indices the host passes to scrollToCell: a negative one, the probes,
\* and one that never has a container.
ScrollIndices == {-1} \cup ProbeIndices \cup {MaxItemCount}

NextEvents ==
    \/ \E n \in ItemCountChoices : SetItemCount(n)
    \/ Update
    \/ Reload
    \/ \E batch \in Batches : EntriesCallback(batch)
    \/ \E index \in ScrollIndices, animated \in BOOLEAN : ScrollToCell(index, animated)
    \/ \E index \in ProbeIndices : CellSelected(index)

SpecEvents == InitEvents /\ [][NextEvents]_vars

\* ------------------------------------------------------------------ a deferred supplier
\* The supplier is one whose cellForIndex is `async`: every call returns a
\* promise at once and the promise settles later, in a task of its own.
InitDeferred ==
    /\ itemCount \in ItemCountChoices
    /\ scrollOptimizationsDisabled \in BOOLEAN
    /\ changed = TRUE
    /\ hasRendered = FALSE
    /\ cellContent = << >>
    /\ cellHeight = << >>
    /\ visibleCellIndices = {}
    /\ renderedCellIndices = {}
    /\ placeholderCellIndices = {}
    /\ observedSentinel = FALSE
    /\ observedCells = {}
    /\ cellProvider = [loaded |-> MaxItemCount, version |-> 1, deferred |-> TRUE, failing |-> {}]
    /\ lastOp = [name |-> "constructor", index |-> 0, repeated |-> FALSE]
    /\ passCompleted = FALSE
    /\ queried = {}
    /\ opCount = 0
    /\ returned = << >>
    /\ dispatched = << >>
    /\ sentinelIntersecting = FALSE
    /\ sentinelReportDue = FALSE
    /\ scrolledIntoView = << >>
    /\ entries = << >>
    /\ inFlight = {}
    /\ thrown = FALSE
    /\ args = << >>
    /\ held = << >>
    /\ isConnected = TRUE
    /\ reports = {}

\* The promise settles. The component attached no reaction to it: it handed
\* the promise itself to render(), so no state of the component changes.
Resolve(promise) ==
    /\ UNCHANGED << isConnected, reports >>
    /\ promise \in inFlight
    /\ Ran("resolve", promise.idx)
    /\ inFlight' = inFlight \ {promise}
    /\ dispatched' = << >>
    /\ passCompleted' = FALSE
    /\ queried' = {}
    /\ UNCHANGED << itemCount, scrollOptimizationsDisabled, changed, hasRendered,
                    cellContent, cellHeight, visibleCellIndices, renderedCellIndices,
                    placeholderCellIndices, observedSentinel, observedCells,
                    cellProvider, sentinelIntersecting, sentinelReportDue >>
    /\ thrown' = FALSE

NextDeferred ==
    \/ \E n \in ItemCountChoices : SetItemCount(n)
    \/ Update
    \/ Reload
    \/ \E index \in RefreshIndices : RefreshCell(index)
    \/ \E batch \in CellBatches : IntersectionCallback(batch)
    \/ \E promise \in inFlight : Resolve(promise)

SpecDeferred == InitDeferred /\ [][NextDeferred]_vars

\* ------------------------------------------------------------------ observation
\* The operations that set the observation up or tear it down, and the
\* observer's callback.
NextObservation ==
    \/ \E n \in ItemCountChoices : SetItemCount(n)
    \/ \E b \in BOOLEAN : SetScrollOptimizationsDisabled(b)
    \/ Update
    \/ Reload
    \/ \E batch \in CellBatches : IntersectionCallback(batch)
    \/ DisconnectedCallback
    \/ ConnectedCallback

SpecObservation == Init /\ [][NextObservation]_vars

\* ------------------------------------------------------------------ a failing supplier
\* The indices for which the supplier's cellForIndex throws.
FailingIndices == {1}

InitFailing ==
    /\ itemCount \in ItemCountChoices
    /\ scrollOptimizationsDisabled \in BOOLEAN
    /\ changed = TRUE
    /\ hasRendered = FALSE
    /\ cellContent = << >>
    /\ cellHeight = << >>
    /\ visibleCellIndices = {}
    /\ renderedCellIndices = {}
    /\ placeholderCellIndices = {}
    /\ observedSentinel = FALSE
    /\ observedCells = {}
    /\ cellProvider \in [loaded : LoadedChoices, version : {1}, deferred : {FALSE},
                          failing : {FailingIndices}]
    /\ lastOp = [name |-> "constructor", index |-> 0, repeated |-> FALSE]
    /\ passCompleted = FALSE
    /\ queried = {}
    /\ opCount = 0
    /\ returned = << >>
    /\ dispatched = << >>
    /\ sentinelIntersecting = FALSE
    /\ sentinelReportDue = FALSE
    /\ scrolledIntoView = << >>
    /\ entries = << >>
    /\ inFlight = {}
    /\ thrown = FALSE
    /\ args = << >>
    /\ held = << >>
    /\ isConnected = TRUE
    /\ reports = {}

NextFailing ==
    \/ \E n \in ItemCountChoices : SetItemCount(n)
    \/ Update
    \/ Reload
    \/ \E index \in RefreshIndices : RefreshCell(index)
    \/ \E batch \in CellBatches : IntersectionCallback(batch)

SpecFailing == InitFailing /\ [][NextFailing]_vars

\* ------------------------------------------------------------------ the buffer range alone
\* The largest index of a visible cell bufferRange is applied to: large enough
\* for more than ten visible cells that start above index 10.
MaxVisibleIndex == 22

\* The visible sets bufferRange is applied to: the runs of indices, the runs
\* with one index left out, and the pairs.
VisibleChoices ==
    {(a..b) \ {c} : a \in 0..MaxVisibleIndex, b \in 0..MaxVisibleIndex,
                    c \in 0..MaxVisibleIndex}
        \cup {{a, b} : a \in 0..MaxVisibleIndex, b \in 0..MaxVisibleIndex}

InitBufferRange ==
    /\ itemCount \in 0..(MaxVisibleIndex + 2)
    /\ visibleCellIndices \in VisibleChoices
    /\ scrollOptimizationsDisabled = FALSE
    /\ changed = TRUE
    /\ hasRendered = FALSE
    /\ cellContent = << >>
    /\ cellHeight = << >>
    /\ renderedCellIndices = {}
    /\ placeholderCellIndices = {}
    /\ observedSentinel = FALSE
    /\ observedCells = {}
    /\ cellProvider = [loaded |-> 0, version |-> 1, deferred |-> FALSE, failing |-> {}]
    /\ lastOp = [name |-> "constructor", index |-> 0, repeated |-> FALSE]
    /\ passCompleted = FALSE
    /\ queried = {}
    /\ opCount = 0
    /\ returned = << >>
    /\ dispatched = << >>
    /\ sentinelIntersecting = FALSE
    /\ sentinelReportDue = FALSE
    /\ scrolledIntoView = << >>
    /\ entries = << >>
    /\ inFlight = {}
    /\ thrown = FALSE
    /\ args = << >>
    /\ held = << >>
    /\ isConnected = TRUE
    /\ reports = {}

\* The getter is read.
GetBufferRange ==
    /\ UNCHANGED << isConnected, reports >>
    /\ UNCHANGED held
    /\ lastOp.name = "constructor"
    /\ returned' = bufferRange(visibleCellIndices, itemCount)
    /\ lastOp' = Op("bufferRange", 0)
    /\ UNCHANGED << itemCount, scrollOptimizationsDisabled, changed, hasRendered,
                    cellContent, cellHeight, visibleCellIndices, renderedCellIndices,
                    placeholderCellIndices, observedSentinel, observedCells,
                    cellProvider, passCompleted, queried, opCount, dispatched,
                    sentinelIntersecting, sentinelReportDue, scrolledIntoView,
                    entries, inFlight, thrown, args >>

SpecBufferRange == InitBufferRange /\ [][GetBufferRange]_vars

\* ------------------------------------------------------------------ generateRange alone
\* The largest start and stop, and the largest step, generateRange is applied
\* to.
MaxStop == 7
MaxStep == 3

\* The arguments: starts and stops on both sides of zero, in either order.
RangeArgs ==
    {<< start, stop, step >> :
        start \in (-2)..MaxStop, stop \in (-2)..MaxStop, step \in 1..MaxStep}

InitRange ==
    /\ itemCount = 0
    /\ visibleCellIndices = {}
    /\ scrollOptimizationsDisabled = FALSE
    /\ changed = TRUE
    /\ hasRendered = FALSE
    /\ cellContent = << >>
    /\ cellHeight = << >>
    /\ renderedCellIndices = {}
    /\ placeholderCellIndices = {}
    /\ observedSentinel = FALSE
    /\ observedCells = {}
    /\ cellProvider = [loaded |-> 0, version |-> 1, deferred |-> FALSE, failing |-> {}]
    /\ lastOp = [name |-> "constructor", index |-> 0, repeated |-> FALSE]
    /\ passCompleted = FALSE
    /\ queried = {}
    /\ opCount = 0
    /\ returned = << >>
    /\ dispatched = << >>
    /\ sentinelIntersecting = FALSE
    /\ sentinelReportDue = FALSE
    /\ scrolledIntoView = << >>
    /\ entries = << >>
    /\ inFlight = {}
    /\ thrown = FALSE
    /\ args \in RangeArgs
    /\ held = << >>
    /\ isConnected = TRUE
    /\ reports = {}

\* generateRange is called with the arguments.
GenerateRange ==
    /\ UNCHANGED << isConnected, reports >>
    /\ UNCHANGED held
    /\ lastOp.name = "constructor"
    /\ returned' = generateRange(args[1], args[2], args[3])
    /\ lastOp' = Op("generateRange", 0)
    /\ UNCHANGED << itemCount, scrollOptimizationsDisabled, changed, hasRendered,
                    cellContent, cellHeight, visibleCellIndices, renderedCellIndices,
                    placeholderCellIndices, observedSentinel, observedCells,
                    cellProvider, passCompleted, queried, opCount, dispatched,
                    sentinelIntersecting, sentinelReportDue, scrolledIntoView,
                    entries, inFlight, thrown, args >>

SpecRange == InitRange /\ [][GenerateRange]_vars

\* ------------------------------------------------------------------ claims
\* The buffer range of the current visible set and itemCount, as a set.
BufferSet == SeqToSet(bufferRange(visibleCellIndices, itemCount))

\* The indices that have a container.
Containers == DOMAIN cellContent

\* C1: after every completed reconciliation pass every index of
\* RenderedIndexSet lies inside the buffer range computed for that pass.
C1_RenderedInsideBufferRange ==
    passCompleted => renderedCellIndices \subseteq BufferSet

\* C2: after every completed reconciliation pass every index of
\* PlaceholderIndexSet lies inside the buffer range computed for that pass;
\* stated for the indices that still have their container, so that it is the
\* move of the visible set that takes an index out of the range.
C2_PlaceholdersInsideBufferRange ==
    passCompleted => (placeholderCellIndices \cap Containers) \subseteq BufferSet

\* C3: for a non-empty visible set with minimum m and maximum M and any
\* itemCount N, the buffer range is the ascending run of the integers from
\* max(m-k, 0) to min(M+k, N-1), k = max(10, |visible|), and is empty when
\* the upper end is below the lower end.
C3_BufferRangeIsWindow ==
    (lastOp.name = "bufferRange" /\ visibleCellIndices # {}) =>
        LET k == IF Cardinality(visibleCellIndices) > 10
                 THEN Cardinality(visibleCellIndices) ELSE 10
            m == SetMin(visibleCellIndices)
            M == SetMax(visibleCellIndices)
            lo == IF m - k > 0 THEN m - k ELSE 0
            hi == IF M + k < itemCount - 1 THEN M + k ELSE itemCount - 1
        IN  /\ Len(returned) = (IF hi < lo THEN 0 ELSE hi - lo + 1)
            /\ \A i \in 1..Len(returned) : returned[i] = lo + i - 1

\* C3 witness: the range of a visible set of more than ten cells, which starts
\* above index 0, as many cells below the first visible one as there are
\* visible cells, and is cut at the last valid index.
C3_Witness ==
    /\ lastOp.name = "bufferRange"
    /\ Cardinality(visibleCellIndices) > 10
    /\ returned # << >>
    /\ returned[1] = SetMin(visibleCellIndices) - Cardinality(visibleCellIndices)
    /\ returned[1] > 0
    /\ returned[Len(returned)] = itemCount - 1

\* An operation ran in this step (the step is not a stuttering one).
Stepped(name) == lastOp'.name = name /\ opCount' = opCount + 1

\* What the supplier returns for `index` now.
Supplied(index) == cellForIndex(cellProvider, index)

\* The membership of `index` in the three index sets.
Membership(index, visible, rendered, placeholder) ==
    << index \in visible, index \in rendered, index \in placeholder >>

\* C4: refreshCell(i) for i inside the current buffer range asks the supplier
\* for i only and leaves container i showing what the supplier returns for i
\* now; every other container keeps its content, and no other index changes
\* its membership in the three index sets.
C4_RefreshCellTouchesOneCell ==
    [][(Stepped("refreshCell") /\ lastOp'.index \in BufferSet) =>
          LET i == lastOp'.index
          IN  /\ queried' \subseteq {i}
              /\ (i \in Containers /\ Supplied(i).kind = "cell") =>
                    (queried' = {i} /\ cellContent'[i] = Supplied(i))
              /\ DOMAIN cellContent' = Containers
              /\ \A j \in Containers \ {i} : cellContent'[j] = cellContent[j]
              /\ \A j \in
                    (visibleCellIndices \cup renderedCellIndices \cup
                     placeholderCellIndices \cup visibleCellIndices' \cup
                     renderedCellIndices' \cup placeholderCellIndices') \ {i} :
                    Membership(j, visibleCellIndices', renderedCellIndices',
                               placeholderCellIndices')
                        = Membership(j, visibleCellIndices, renderedCellIndices,
                                     placeholderCellIndices)]_vars

\* C4 witness: refreshCell(i) has put the supplier's current content in
\* container i, and a sibling still shows content that the supplier would no
\* longer return.
C4_Witness ==
    /\ lastOp.name = "refreshCell"
    /\ lastOp.index \in BufferSet \cap Containers
    /\ cellContent[lastOp.index] = Supplied(lastOp.index)
    /\ cellContent[lastOp.index].kind = "cell"
    /\ \E j \in (Containers \cap BufferSet) \ {lastOp.index} :
          /\ cellContent[j].kind = "cell"
          /\ Supplied(j).kind = "cell"
          /\ cellContent[j] # Supplied(j)

\* C5: after refreshAllVisibleCells() every index of the current buffer range
\* that has a container and content at the supplier shows the supplier's
\* current content and is in RenderedIndexSet; the indices outside the range
\* keep their content and their membership in the three sets.
C5_RefreshAllRerendersBufferRange ==
    [][Stepped("refreshAllVisibleCells") =>
          /\ \A i \in BufferSet \cap Containers :
                Supplied(i).kind = "cell" =>
                    (cellContent'[i] = Supplied(i) /\ i \in renderedCellIndices')
          /\ DOMAIN cellContent' = Containers
          /\ \A j \in Containers \ BufferSet : cellContent'[j] = cellContent[j]
          /\ \A j \in
                (visibleCellIndices \cup renderedCellIndices \cup
                 placeholderCellIndices \cup visibleCellIndices' \cup
                 renderedCellIndices' \cup placeholderCellIndices') \ BufferSet :
                Membership(j, visibleCellIndices', renderedCellIndices',
                           placeholderCellIndices')
                    = Membership(j, visibleCellIndices, renderedCellIndices,
                                 placeholderCellIndices)]_vars

\* C5 witness: refreshAllVisibleCells() has replaced content of the first
\* generation by content of the second, and a container outside the buffer
\* range has kept what it showed.
C5_Witness ==
    /\ lastOp.name = "refreshAllVisibleCells"
    /\ \E i \in BufferSet \cap Containers :
          cellContent[i].kind = "cell" /\ cellContent[i].ver = 2
    /\ \E j \in Containers \ BufferSet : cellContent[j].kind # "nothing"

\* C6: once the component has rendered the current itemCount N, there is the
\* sentinel and there are N cell containers, one for each index of 0..N-1.
C6_OneContainerPerIndex ==
    ~changed =>
        /\ hasRendered
        /\ Containers = 0..(itemCount - 1)
        /\ DOMAIN cellHeight = Containers
        /\ Cardinality(Containers) = itemCount

\* C6 witness: the component has rendered, itemCount was then changed, and it
\* has rendered again.
C6_Witness ==
    /\ ~changed
    /\ lastOp.name = "update"
    /\ opCount >= 3
    /\ itemCount = 3

\* C7: with scrollOptimizationsDisabled set, the observation setup of an
\* update treats every index of 0..itemCount-1 as visible and materializes
\* every one of them in that same call; stated for a supplier that has
\* content for the index, so that no placeholder is involved.
C7_DisabledSetupMaterializesAll ==
    (scrollOptimizationsDisabled /\ lastOp.name = "update") =>
        \A i \in 0..(itemCount - 1) :
            /\ i \in visibleCellIndices
            /\ Supplied(i).kind = "cell" =>
                  (i \in Containers /\ cellContent[i].kind = "cell")

\* The indices reload() evicts and, with the flag set, its setup call makes
\* visible: generateRange(0, max(0, itemCount - 1), 1).
ReloadRange == SeqToSet(generateRange(0, Max2(0, itemCount - 1), 1))

\* C8 as stated: right after reload() returns the visible set, RenderedIndexSet
\* and PlaceholderIndexSet are empty, every container of 0..itemCount-1 holds
\* no content, and the sentinel (once it exists) is observed again.
C8_ReloadEmptiesEverything ==
    lastOp.name = "reload" =>
        /\ visibleCellIndices = {}
        /\ renderedCellIndices = {}
        /\ placeholderCellIndices = {}
        /\ \A i \in Containers \cap (0..(itemCount - 1)) : cellContent[i] = Nothing
        /\ observedSentinel = hasRendered

\* C8 amended: with scroll optimizations enabled, right after reload() returns
\* the three index sets are empty, every container of 0..itemCount-1 holds no
\* content, and the sentinel (once it exists) and every container are observed
\* again; with the flag set the sentinel alone is observed again and the setup
\* call of reload() has made 0..max(0, itemCount-1) the visible set and run a
\* reconciliation pass.
C8_ReloadResets ==
    lastOp.name = "reload" =>
        /\ observedSentinel = hasRendered
        /\ IF scrollOptimizationsDisabled
           THEN /\ visibleCellIndices = ReloadRange
                /\ observedCells = {}
                /\ passCompleted
                /\ renderedCellIndices \cup placeholderCellIndices
                      = Containers \cap BufferSet
           ELSE /\ visibleCellIndices = {}
                /\ renderedCellIndices = {}
                /\ placeholderCellIndices = {}
                /\ \A i \in Containers \cap (0..(itemCount - 1)) :
                      cellContent[i] = Nothing
                /\ observedCells = Containers

\* C8 witness: reload() has returned with optimizations enabled, while cells
\* were showing: their containers are empty, pinned at the height of the cell
\* they showed, and observed again.
C8_Witness ==
    /\ lastOp.name = "reload"
    /\ ~scrollOptimizationsDisabled
    /\ visibleCellIndices = {}
    /\ observedSentinel
    /\ observedCells = Containers
    /\ \E i \in Containers :
          cellContent[i] = Nothing /\ cellHeight[i] = FixedHeight(NaturalHeight(Supplied(i)))
    /\ \E i \in Containers : Supplied(i).kind = "cell"

\* reload() called right after reload() changes nothing of the three index
\* sets, the container contents and the observed elements.
SecondReloadChangesNothing ==
    (Stepped("reload") /\ lastOp'.repeated) =>
        /\ visibleCellIndices' = visibleCellIndices
        /\ renderedCellIndices' = renderedCellIndices
        /\ placeholderCellIndices' = placeholderCellIndices
        /\ cellContent' = cellContent
        /\ observedSentinel' = observedSentinel
        /\ observedCells' = observedCells

\* A setup call that runs once the sentinel exists observes it.
SetupObservesSentinel ==
    ((Stepped("reload") \/ Stepped("update")) /\ hasRendered') => observedSentinel'

C9_ReloadRepopulates ==
    (lastOp.name = "reload" /\ ~scrollOptimizationsDisabled /\ itemCount > 0)
        ~> (/\ passCompleted
            /\ renderedCellIndices # {}
            /\ \A i \in BufferSet \cap (0..(itemCount - 1)) :
                  /\ i \in Containers
                  /\ i \in renderedCellIndices
                  /\ cellContent[i].kind = "cell")

\* C9 witness: reload() has returned on a rendered element whose cells were
\* showing: they are empty now, and the sentinel and the containers are
\* observed.
C9_Witness ==
    /\ lastOp.name = "reload"
    /\ ~scrollOptimizationsDisabled
    /\ itemCount > 0
    /\ hasRendered
    /\ observedSentinel
    /\ observedCells # {}
    /\ renderedCellIndices = {}
    /\ \E i \in Containers : cellContent[i] = Nothing /\ cellHeight[i] = FixedHeight(2)

\* The number of scrollThresholdReached events in a sequence of events.
ThresholdEventCount(events) ==
    Len(SelectSeq(events, LAMBDA event : event.type = "scrollThresholdReached"))

\* C11: an operation dispatches one scrollThresholdReached when it is an
\* observer callback in which the sentinel goes from not intersecting to
\* intersecting, and none otherwise (a report on a sentinel that was
\* intersecting already, after observation was re-attached, included).
C11_OneThresholdEventPerTransition ==
    [][opCount' = opCount + 1 =>
          ThresholdEventCount(dispatched') =
              (IF /\ lastOp'.name = "intersectionCallback"
                  /\ ~sentinelIntersecting
                  /\ sentinelIntersecting'
               THEN 1 ELSE 0)]_vars

\* The visibleCellsChanged events in a sequence of events.
VisibleCellsChangedEvents(events) ==
    SelectSeq(events, LAMBDA event : event.type = "visibleCellsChanged")

\* C12: an operation that ends with a reconciliation pass dispatches exactly
\* one visibleCellsChanged, as its last event, once the pass has rendered and
\* removed its cells, and the event carries the visible set the pass started
\* with; an operation without a pass dispatches none.
C12_OneVisibleCellsChangedPerPass ==
    [][opCount' = opCount + 1 =>
          IF passCompleted'
          THEN /\ Len(VisibleCellsChangedEvents(dispatched')) = 1
               /\ dispatched'[Len(dispatched')].type = "visibleCellsChanged"
               /\ dispatched'[Len(dispatched')].visibleCellIndices = visibleCellIndices'
               /\ dispatched'[Len(dispatched')].rendered = renderedCellIndices'
          ELSE VisibleCellsChangedEvents(dispatched') = << >>]_vars

\* C12 witness: a pass has moved the window to the last cells: it has removed
\* the first cell, and its event carries the visible set and is dispatched
\* with the cells of the new window rendered.
C12_Witness ==
    /\ passCompleted
    /\ lastOp.name = "intersectionCallback"
    /\ visibleCellIndices = {MaxItemCount - 1}
    /\ 0 \in Containers
    /\ cellContent[0] = Nothing
    /\ cellHeight[0].kind = "px"
    /\ Len(dispatched) = 1
    /\ dispatched[1].visibleCellIndices = {MaxItemCount - 1}
    /\ dispatched[1].rendered = 1..(MaxItemCount - 1)

\* C13: after every reconciliation pass the visible set holds indices of
\* 0..itemCount-1 only, whatever itemCount (0 included) and in both modes.
C13_VisibleInsideIndexDomain ==
    passCompleted => visibleCellIndices \subseteq 0..(itemCount - 1)

\* C14: once the update that follows a change of itemCount and a
\* reconciliation pass have run, RenderedIndexSet and PlaceholderIndexSet hold
\* no index at or above itemCount.
C14_NoDanglingIndexAfterShrink ==
    (passCompleted /\ ~changed) =>
        \A i \in renderedCellIndices \cup placeholderCellIndices : i < itemCount

\* C15: the update that follows a growth of itemCount (it creates containers)
\* runs the observation setup again: with optimizations enabled every
\* container, the new ones included, is observed; with the flag set every
\* index of 0..itemCount-1 the supplier has content for, the new ones
\* included, shows its cell when the update is done.
C15_GrowthRerunsSetup ==
    [][(Stepped("update") /\ Containers # DOMAIN cellContent'
            /\ Containers \subseteq DOMAIN cellContent') =>
          IF scrollOptimizationsDisabled
          THEN \A i \in 0..(itemCount - 1) :
                   Supplied(i).kind = "cell" =>
                       /\ i \in DOMAIN cellContent'
                       /\ cellContent'[i].kind = "cell"
                       /\ i \in renderedCellIndices'
          ELSE /\ DOMAIN cellContent' = 0..(itemCount - 1)
               /\ observedCells' = DOMAIN cellContent']_vars

\* C16: scrollToCell(index, animated) returns true exactly when a container
\* exists for `index`, and false (it returns, it does not raise) for an index
\* at or above itemCount, a negative index, and before the first render.
C16_ScrollToCellReturnsContainerExists ==
    lastOp.name = "scrollToCell" => returned = << lastOp.index \in Containers >>

\* C16 witness: scrollToCell has returned true for the last cell of a list
\* that is longer than the default window.
C16_Witness ==
    /\ lastOp.name = "scrollToCell"
    /\ lastOp.index = MaxItemCount - 1
    /\ returned = << TRUE >>
    /\ scrolledIntoView[1] = MaxItemCount - 1

\* C17: scrollToCell(index, animated) leaves the three index sets, every
\* container's content and the observed elements as they are, whatever
\* `animated` is and whatever it returns.
C17_ScrollToCellChangesNoWindowState ==
    [][Stepped("scrollToCell") =>
          /\ visibleCellIndices' = visibleCellIndices
          /\ renderedCellIndices' = renderedCellIndices
          /\ placeholderCellIndices' = placeholderCellIndices
          /\ cellContent' = cellContent
          /\ observedSentinel' = observedSentinel
          /\ observedCells' = observedCells]_vars

\* C17 witness: an animated scrollToCell has returned true for a cell that is
\* rendered and not in the visible set.
C17_Witness ==
    /\ lastOp.name = "scrollToCell"
    /\ returned = << TRUE >>
    /\ scrolledIntoView = << lastOp.index, "smooth" >>
    /\ lastOp.index \in renderedCellIndices
    /\ lastOp.index \notin visibleCellIndices

\* C18: a click on the container of index i dispatches exactly one event, a
\* cellSelected whose detail.index is i, and changes none of the three index
\* sets and no container's content.
C18_ClickEmitsCellSelected ==
    [][Stepped("cellSelected") =>
          /\ Len(dispatched') = 1
          /\ dispatched'[1].type = "cellSelected"
          /\ dispatched'[1].index = lastOp'.index
          /\ visibleCellIndices' = visibleCellIndices
          /\ renderedCellIndices' = renderedCellIndices
          /\ placeholderCellIndices' = placeholderCellIndices
          /\ cellContent' = cellContent]_vars

\* C18 witness: the last cell of the list, which shows its content, has been
\* clicked and the event carries its index.
C18_Witness ==
    /\ lastOp.name = "cellSelected"
    /\ lastOp.index = MaxItemCount - 1
    /\ lastOp.index = itemCount - 1
    /\ cellContent[lastOp.index].kind = "cell"
    /\ dispatched = << [type |-> "cellSelected", index |-> MaxItemCount - 1,
                        visibleCellIndices |-> {}, rendered |-> {}] >>

\* The entries of a batch that are about the container of index i.
EntriesAbout(batch, i) ==
    SelectSeq(batch, LAMBDA entry : ~entry.sentinel /\ entry.index = i)

\* C19: after a callback an index that an entry of the batch is about is in
\* the visible set exactly when the (last) entry about it says that its
\* container is intersecting; an index no entry is about, the entries about
\* the sentinel notwithstanding, is in the visible set exactly when it was.
C19_VisibleFollowsEntries ==
    [][(Stepped("intersectionCallback") /\ entries' # << >>) =>
          \A i \in visibleCellIndices \cup visibleCellIndices' \cup ProbeIndices :
              LET about == EntriesAbout(entries', i)
              IN  IF about = << >>
                  THEN (i \in visibleCellIndices') = (i \in visibleCellIndices)
                  ELSE (i \in visibleCellIndices') = about[Len(about)].isIntersecting]_vars

\* C19 witness: one callback was handed an entry that says the first cell no
\* longer intersects and an entry that says the sentinel does: the first cell
\* has left the visible set, the last cell has stayed in it.
C19_Witness ==
    /\ lastOp.name = "intersectionCallback"
    /\ Len(entries) = 2
    /\ \E k \in 1..2 : entries[k].sentinel /\ entries[k].isIntersecting
    /\ \E k \in 1..2 :
          ~entries[k].sentinel /\ entries[k].index = 0 /\ ~entries[k].isIntersecting
    /\ visibleCellIndices = {MaxItemCount - 1}
    /\ cellContent[0] = Nothing

\* The index of a pending promise has been evicted: the last pass left it
\* outside the buffer range, or its container was emptied (by reload, or by a
\* removal) and not filled again.
Evicted(index) ==
    \/ passCompleted /\ index \notin BufferSet
    \/ index \in Containers /\ cellContent[index] = Nothing

\* C20: with a deferred supplier, when the promise for an index settles after
\* the index has been evicted, the index is not in renderedCellIndices
\* afterwards and its container does not show the cell the promise settled
\* with; any pending promise may settle, whichever others are pending.
C20_StaleResultDiscarded ==
    [][\A promise \in inFlight :
           (/\ lastOp'.name = "resolve"
            /\ inFlight' = inFlight \ {promise}
            /\ Evicted(promise.idx))
           => /\ promise.idx \notin renderedCellIndices'
              /\ promise.idx \in DOMAIN cellContent'
                     => cellContent'[promise.idx].kind # "cell"]_vars

\* The operations that run processVisibleCells.
PassOps == {"intersectionCallback", "update", "reload"}

\* C21: when the supplier fails for an index during a pass, the index is not
\* in renderedCellIndices, every other index of the buffer range that has a
\* container is rendered or holds a placeholder, and the removal step has
\* run: no rendered index that has a container is left outside the buffer
\* range.
C21_FailureDoesNotStopPass ==
    \A index \in queried \cap cellProvider.failing :
        lastOp.name \in PassOps
        => /\ index \notin renderedCellIndices
           /\ \A other \in (BufferSet \cap Containers) \ cellProvider.failing :
                  other \in renderedCellIndices \cup placeholderCellIndices
           /\ \A other \in renderedCellIndices \cap Containers : other \in BufferSet

\* The indices the operation of this step addresses: the argument of
\* refreshCell and of scrollToCell, the range reload() removes, and for a pass
\* of the observer's callback the buffer range it renders and the rendered
\* indices it looks at for removal.
Addressed ==
    CASE lastOp'.name \in {"refreshCell", "scrollToCell"} -> {lastOp'.index}
      [] lastOp'.name = "reload" -> ReloadRange
      [] lastOp'.name = "intersectionCallback" /\ ~scrollOptimizationsDisabled ->
             BufferSet' \cup renderedCellIndices
      [] OTHER -> {}

\* C22: an operation that addresses an index without a container (refreshCell,
\* the rendering and the removal of a pass, reload, scrollToCell) does not
\* raise and leaves the membership of that index in the three index sets as it
\* was; the index has no container afterwards either, so no content changes.
C22_MissingContainerIsNoOp ==
    [][opCount' = opCount + 1 =>
           \A index \in Addressed \ Containers :
               /\ ~thrown'
               /\ index \notin DOMAIN cellContent'
               /\ Membership(index, visibleCellIndices', renderedCellIndices',
                             placeholderCellIndices')
                      = Membership(index, visibleCellIndices, renderedCellIndices,
                                   placeholderCellIndices)]_vars

\* C23: after every observation setup (reload(), or the update after a change
\* of itemCount or of the flag) the observer watches what that setup observed
\* and nothing that was observed before: the sentinel once it exists, and the
\* containers that exist now when the optimizations are enabled, none when
\* they are disabled; the observed elements are a set, so each is registered
\* once. After disconnectedCallback() nothing is observed.
C23_SetupReplacesObservation ==
    /\ lastOp.name \in {"reload", "update"} =>
           /\ observedCells = IF scrollOptimizationsDisabled THEN {} ELSE Containers
           /\ observedSentinel = hasRendered
    /\ lastOp.name = "disconnectedCallback" =>
           /\ observedCells = {}
           /\ ~observedSentinel

\* A setup after a shrink: the observer watched twelve containers (the last
\* one was reported visible) and now watches the three that are left.
C23_Witness ==
    /\ lastOp.name = "update"
    /\ ~scrollOptimizationsDisabled
    /\ MaxItemCount - 1 \in visibleCellIndices
    /\ itemCount = 3
    /\ observedCells = 0..2
    /\ observedSentinel

\* C24: renderedCellIndices and placeholderCellIndices are disjoint in every
\* reachable state, whatever the order of observer batches, itemCount changes,
\* reload, refreshCell and refreshAllVisibleCells, and also when the supplier
\* begins or ceases to have content for an index.
C24_RenderedAndPlaceholderDisjoint ==
    renderedCellIndices \cap placeholderCellIndices = {}

\* The supplier had no content, the cells got placeholders, the content
\* arrived and a pass rendered the cells of its buffer range: the first cell,
\* outside that range, still has its placeholder.
C24_Witness ==
    /\ passCompleted
    /\ cellProvider.loaded = MaxItemCount
    /\ 0 \in placeholderCellIndices
    /\ 1 \in renderedCellIndices
    /\ cellContent[1].kind = "cell"

\* C25: generateRange(start, stop, step) with step >= 1 returns the ascending
\* sequence start, start + step, ... of length floor((stop - start) / step) + 1
\* whose last element is the largest such value that is <= stop, and the empty
\* sequence whenever stop < start.
C25_GenerateRangeIsInclusiveRange ==
    lastOp.name = "generateRange" =>
        LET start == args[1]
            stop == args[2]
            step == args[3]
        IN  IF stop < start
            THEN returned = << >>
            ELSE /\ Len(returned) = ((stop - start) \div step) + 1
                 /\ returned[1] = start
                 /\ \A i \in 1..(Len(returned) - 1) : returned[i + 1] = returned[i] + step
                 /\ returned[Len(returned)] <= stop
                 /\ returned[Len(returned)] + step > stop

\* A call whose length (6 - 1) / 2 + 1 = 3.5 is not a whole number.
C25_Witness ==
    /\ lastOp.name = "generateRange"
    /\ args = << 1, 6, 2 >>
    /\ returned = << 1, 3, 5 >>

\* C26: when the visible set is empty, the buffer range is the
\* default window [0, 10] clamped to the valid indices: it holds no index
\* >= itemCount, and is empty when itemCount is 0.
C26_DefaultWindowClamped ==
    (lastOp.name = "bufferRange" /\ visibleCellIndices = {}) =>
        SeqToSet(returned) = 0..Min2(10, itemCount - 1)

\* C27: a pass leaves every index of its buffer range that was not in
\* renderedCellIndices, has a container and for which the supplier returns
\* content with the height of its container set to auto, that content in the
\* container, the index in renderedCellIndices and not in
\* placeholderCellIndices; so an index that held a placeholder is rendered by
\* the first pass at which its content is there.
C27_PresentContentIsRendered ==
    [][(opCount' = opCount + 1 /\ passCompleted') =>
           \A index \in (BufferSet' \cap DOMAIN cellContent') \ renderedCellIndices :
               Supplied(index).kind = "cell" =>
                   /\ cellHeight'[index] = AutoHeight
                   /\ cellContent'[index] = Supplied(index)
                   /\ index \in renderedCellIndices'
                   /\ index \notin placeholderCellIndices']_vars

\* The cells around the last one held placeholders, the content arrived, and
\* a pass for the first cell rendered the cells of its buffer range: the
\* last cell, outside that range, still has its placeholder.
C27_Witness ==
    /\ passCompleted
    /\ lastOp.name = "intersectionCallback"
    /\ MaxItemCount - 1 \in placeholderCellIndices
    /\ 1 \in renderedCellIndices
    /\ 1 \notin placeholderCellIndices
    /\ cellHeight[1] = AutoHeight
    /\ cellContent[1] = Supplied(1)

\* The indices the last operation rendered anew, when it is one that does:
\* the buffer range for a pass and for refreshAllVisibleCells, the argument
\* for refreshCell.
Reconciled ==
    CASE lastOp.name \in PassOps /\ passCompleted -> BufferSet
      [] lastOp.name = "refreshAllVisibleCells" -> BufferSet
      [] lastOp.name = "refreshCell" -> BufferSet \cap {lastOp.index}
      [] OTHER -> {}

\* C28: after a pass, refreshCell or refreshAllVisibleCells, every index of
\* the buffer range that has a container and for which the supplier returns
\* nothing is in placeholderCellIndices and its container holds the
\* placeholder.
C28_AbsentContentHoldsPlaceholder ==
    \A index \in Reconciled \cap Containers :
        Supplied(index).kind = "undefined" =>
            /\ index \in placeholderCellIndices
            /\ cellContent[index] = Placeholder

\* A pass evicts the rendered indices that are outside its buffer range: such
\* an index leaves renderedCellIndices, and its container, when it has one,
\* is emptied with its height pinned to the height it had. (reload() empties
\* renderedCellIndices itself before its pass, which finds nothing to evict.)
PassEvicts ==
    (opCount' = opCount + 1 /\ passCompleted' /\ lastOp'.name # "reload") =>
        \A index \in renderedCellIndices \ BufferSet' :
            /\ index \notin renderedCellIndices'
            /\ index \in DOMAIN cellContent \cap DOMAIN cellContent' =>
                   /\ cellContent'[index] = Nothing
                   /\ cellHeight'[index]
                          = FixedHeight(offsetHeight(cellContent[index],
                                                     cellHeight[index]))

\* The pinned height of an evicted index stays while its container stays
\* empty. (An evicted index is in neither index set: rendering took it out of
\* placeholderCellIndices.)
PinnedHeightStays ==
    \A index \in DOMAIN cellContent \cap DOMAIN cellContent' :
        (/\ cellHeight[index].kind = "px"
         /\ index \notin renderedCellIndices \cup placeholderCellIndices
         /\ cellContent[index] = Nothing
         /\ cellContent'[index] = Nothing)
        => cellHeight'[index] = cellHeight[index]

\* C29: in each pass every index that is in renderedCellIndices and not in
\* the pass's buffer range is evicted: the height of its container is pinned
\* to the height it had just before, its content is cleared and the index
\* leaves renderedCellIndices; the pinned height stays until the index is
\* rendered again.
C29_PassEvictsOutsideBufferRange ==
    [][PassEvicts /\ PinnedHeightStays]_vars

\* C30: a pass that follows a pass with the visible set, itemCount and the
\* supplier unchanged leaves renderedCellIndices, placeholderCellIndices and
\* every container as the first pass left them; it renders nothing (it asks
\* the supplier only for indices that hold a placeholder, and gets nothing
\* for them) and evicts nothing.
C30_PassIsIdempotent ==
    [][(/\ Stepped("intersectionCallback")
        /\ passCompleted
        /\ passCompleted'
        /\ visibleCellIndices' = visibleCellIndices)
       => /\ renderedCellIndices' = renderedCellIndices
          /\ placeholderCellIndices' = placeholderCellIndices
          /\ cellContent' = cellContent
          /\ cellHeight' = cellHeight
          /\ queried' \subseteq placeholderCellIndices
          /\ \A index \in queried' : Supplied(index).kind = "undefined"]_vars

\* The first update and two callbacks, each with a pass. The second callback
\* was told that the last cell does not intersect; the last cell was never
\* rendered (its height was never set), so it was not visible before either,
\* and the visible set was {0} at both passes.
C30_Witness ==
    /\ lastOp.name = "intersectionCallback"
    /\ lastOp.repeated
    /\ opCount = 3
    /\ passCompleted
    /\ entries = << [sentinel |-> FALSE, index |-> MaxItemCount - 1,
                     isIntersecting |-> FALSE] >>
    /\ visibleCellIndices = {0}
    /\ itemCount = MaxItemCount
    /\ cellHeight[MaxItemCount - 1] = UnsetHeight
    /\ renderedCellIndices = 0..10

\* C31: refreshCell(i) for i outside the current buffer range evicts i: i is
\* not in RenderedIndexSet afterwards, its container (if it has one) is left
\* empty, and the supplier is not asked for anything.
C31_RefreshOutsideRangeEvicts ==
    [][(Stepped("refreshCell") /\ lastOp'.index \notin BufferSet) =>
          LET i == lastOp'.index
          IN  /\ i \notin renderedCellIndices'
              /\ queried' = {}
              /\ i \in DOMAIN cellContent' => cellContent'[i] = Nothing]_vars

\* C32: a pass renders and removes against one buffer range, rendering first:
\* every index the pass asked the supplier for lies in that range and still
\* holds what the pass put there when the pass ends (the content, with the
\* index in renderedCellIndices, or a new placeholder when the supplier had
\* nothing), every index that was rendered and lies in
\* the range stays rendered with its content untouched, and every index the
\* pass took out of renderedCellIndices lies outside the range.
C32_PassRendersThenRemovesAgainstOneRange ==
    [][(opCount' = opCount + 1 /\ passCompleted') =>
           \A range \in {BufferSet'} :
               /\ queried' \subseteq range \cap DOMAIN cellContent'
               /\ \A index \in queried' :
                      /\ Supplied(index).kind = "cell" =>
                             /\ index \in renderedCellIndices'
                             /\ cellContent'[index] = Supplied(index)
                      /\ (Supplied(index).kind = "undefined"
                              /\ index \notin placeholderCellIndices) =>
                             cellContent'[index] = Placeholder
               /\ lastOp'.name # "reload" =>
                      /\ \A index \in renderedCellIndices \cap range :
                             /\ index \in renderedCellIndices'
                             /\ index \notin queried'
                             /\ index \in DOMAIN cellContent \cap DOMAIN cellContent' =>
                                    cellContent'[index] = cellContent[index]
                      /\ (renderedCellIndices \ renderedCellIndices') \cap range = {}]_vars

\* C32 witness: one pass of the observer's callback, the second of two, has
\* rendered the last cell and evicted the first one, which the pass before
\* had rendered.
C32_Witness ==
    /\ lastOp.name = "intersectionCallback"
    /\ lastOp.repeated
    /\ opCount = 3
    /\ passCompleted
    /\ MaxItemCount - 1 \in queried \cap renderedCellIndices
    /\ cellContent[MaxItemCount - 1].kind = "cell"
    /\ 0 \in Containers \ (renderedCellIndices \cup BufferSet)
    /\ cellContent[0] = Nothing
    /\ cellHeight[0].kind = "px"
    /\ 1 \in renderedCellIndices \ queried

\* C33: a callback handles its batch as a whole. With the optimizations on it
\* runs one pass, also for a batch with only the sentinel's entry, and
\* dispatches one visibleCellsChanged, whose visible set has every entry of the
\* batch applied: an index an entry is about is in it exactly when the last
\* entry about it is intersecting, any other index exactly when it was visible
\* before. With the optimizations off it runs no pass, dispatches no
\* visibleCellsChanged, asks the supplier for nothing and leaves
\* renderedCellIndices, placeholderCellIndices and the containers as they were.
C33_BatchIsOnePass ==
    [][(Stepped("intersectionCallback") /\ entries' # << >>) =>
          LET events == VisibleCellsChangedEvents(dispatched')
          IN  IF ~scrollOptimizationsDisabled
              THEN /\ passCompleted'
                   /\ Len(events) = 1
                   /\ events[1].visibleCellIndices = visibleCellIndices'
                   /\ \A i \in visibleCellIndices \cup visibleCellIndices'
                                  \cup ProbeIndices :
                          LET about == EntriesAbout(entries', i)
                          IN  (i \in events[1].visibleCellIndices)
                                  = (IF about = << >>
                                     THEN i \in visibleCellIndices
                                     ELSE about[Len(about)].isIntersecting)
              ELSE /\ ~passCompleted'
                   /\ events = << >>
                   /\ queried' = {}
                   /\ renderedCellIndices' = renderedCellIndices
                   /\ placeholderCellIndices' = placeholderCellIndices
                   /\ cellContent' = cellContent]_vars

\* C33 witness: with the optimizations on, a batch of two entries about cells
\* has changed the visible set and one pass has run for it with one event.
C33_Witness ==
    /\ ~scrollOptimizationsDisabled
    /\ lastOp.name = "intersectionCallback"
    /\ Len(entries) = 2
    /\ \A i \in DOMAIN entries : ~entries[i].sentinel
    /\ entries[1].index # entries[2].index
    /\ entries[1].isIntersecting
    /\ ~entries[2].isIntersecting
    /\ passCompleted
    /\ Len(VisibleCellsChangedEvents(dispatched)) = 1
    /\ visibleCellIndices = {entries[1].index}

\* C34: getVisibleCellIndices() returns an array with exactly the members of
\* the visible set at the time of the call and changes nothing of the
\* element; the array keeps its elements whatever the element does later
\* (callbacks of the observer, reload(), updates), and an element pushed onto
\* the array is not in the visible set for it.
C34_ReturnsSnapshot ==
    [][/\ Stepped("getVisibleCellIndices") =>
              /\ held' # << >>
              /\ elementsOf(held'[1], visibleCellIndices') = visibleCellIndices
              /\ UNCHANGED << itemCount, scrollOptimizationsDisabled, changed,
                              hasRendered, cellContent, cellHeight,
                              visibleCellIndices, renderedCellIndices,
                              placeholderCellIndices, observedSentinel,
                              observedCells, cellProvider, sentinelIntersecting >>
       /\ (/\ held # << >>
           /\ opCount' = opCount + 1
           /\ lastOp'.name \notin {"getVisibleCellIndices", "push"}) =>
              /\ held' # << >>
              /\ elementsOf(held'[1], visibleCellIndices')
                     = elementsOf(held[1], visibleCellIndices)
       /\ Stepped("push") =>
              /\ visibleCellIndices' = visibleCellIndices
              /\ elementsOf(held'[1], visibleCellIndices')
                     = elementsOf(held[1], visibleCellIndices) \cup {lastOp'.index}]_vars

\* C34 witness: the host holds an array with the first cell, which was
\* visible when it asked, and reload() has emptied the visible set since.
C34_Witness ==
    /\ ~scrollOptimizationsDisabled
    /\ lastOp.name = "reload"
    /\ held # << >>
    /\ elementsOf(held[1], visibleCellIndices) = {0}
    /\ visibleCellIndices = {}

\* C35: for every index that has a container, the index is in
\* renderedCellIndices exactly when the container holds content of the
\* supplier; and after a pass every container of the pass's buffer range for
\* which the supplier has content holds content, a container recreated after
\* itemCount shrank and grew again included.
C35_RenderedIffContainerHoldsContent ==
    /\ \A index \in Containers :
           (index \in renderedCellIndices) = (cellContent[index].kind = "cell")
    /\ (lastOp.name \in PassOps /\ passCompleted) =>
           \A index \in BufferSet \cap Containers :
               Supplied(index).kind = "cell" => cellContent[index].kind = "cell"

\* C36: the supplier is asked only for indices of the buffer range of the
\* pass or refresh that have a container, are below itemCount and were not in
\* renderedCellIndices when the operation reached them: a pass asks for no
\* index that was rendered before it, refreshCell asks for no other index
\* than its own.
C36_SupplierAskedOnlyInRange ==
    [][opCount' = opCount + 1 =>
           /\ queried' \subseteq BufferSet' \cap DOMAIN cellContent'
           /\ \A index \in queried' : index < itemCount'
           /\ lastOp'.name \in {"update", "intersectionCallback"} =>
                  queried' \cap renderedCellIndices = {}
           /\ lastOp'.name = "refreshCell" => queried' \subseteq {lastOp'.index}]_vars

\* C37: the content a container holds is content the supplier returned for
\* the index of that container, whatever passes, refreshes, reloads and
\* changes of itemCount and of the supplier came before.
C37_ContentIsOfItsIndex ==
    \A index \in Containers :
        cellContent[index].kind = "cell" => cellContent[index].idx = index

\* C37 witness: the last cell was rendered anew by refreshCell after the
\* supplier changed, the first cell still holds what the supplier returned
\* for it before.
C37_Witness ==
    /\ lastOp.name = "refreshCell"
    /\ {0, MaxItemCount - 1} \subseteq Containers
    /\ cellContent[MaxItemCount - 1] = [kind |-> "cell", idx |-> MaxItemCount - 1, ver |-> 2]
    /\ cellContent[0] = [kind |-> "cell", idx |-> 0, ver |-> 1]

\* C38: whenever the element is attached and has rendered, the optimizations
\* are on and no update is pending, the observer watches the sentinel and
\* every cell container, also after the element was detached and attached
\* again with itemCount and scrollOptimizationsDisabled as they were.
C38_AttachedElementObserves ==
    (isConnected /\ hasRendered /\ ~scrollOptimizationsDisabled /\ ~changed) =>
        /\ observedSentinel
        /\ observedCells = Containers

\* C39: with the optimizations on, every index of the visible set is one whose
\* last entry from the observer since the last reload() was intersecting,
\* also right after scrollOptimizationsDisabled went from true back to false.
C39_VisibleWasReportedIntersecting ==
    ~scrollOptimizationsDisabled => visibleCellIndices \subseteq reports

\* C40: two visibleCellsChanged events in a row never carry the same visible
\* set; stated for the events of two operations that follow each other: when
\* both dispatch visibleCellsChanged, the visible sets of the two events
\* differ.
C40_EventOnlyOnChange ==
    [][opCount' = opCount + 1 =>
           \A before \in SeqToSet(VisibleCellsChangedEvents(dispatched)),
              after \in SeqToSet(VisibleCellsChangedEvents(dispatched')) :
               after.visibleCellIndices # before.visibleCellIndices]_vars

====
